---- MODULE Spec2Model ----
(***************************************************************************)
(* A model of two codemods of LibCST:                                      *)
(*   - ConvertFormatStringCommand (convert_format_to_fstring.py), which    *)
(*     rewrites "<string>".format(<args>) calls into f-strings, and        *)
(*   - AddImportsVisitor (_add_imports.py), which adds the imports that    *)
(*     earlier passes asked for.                                           *)
(* Text is a sequence of one-character strings.  Three specifications:     *)
(*   SpecTokens   _get_tokens / _get_field applied to a format string      *)
(*   Spec         leave_Call applied to the calls of a file                *)
(*   SpecImports  add_needed_import and the AddImportsVisitor pass         *)
(***************************************************************************)
EXTENDS Integers, Sequences, FiniteSets, TLC

VARIABLES
    tin,        \* SpecTokens: the string handed to _get_tokens
    tout,       \* SpecTokens: the materialised generator, or Null before
    calls,      \* Spec: the Call nodes of the file, in the order they are left
    results,    \* Spec: what leave_Call ended with, per call left so far
    warnings,   \* Spec: the warnings of the context, in order
    status,     \* Spec: "running", or "fatal" once an exception has left
    tree,       \* SpecImports: the statements of the module, in order
    scratch,    \* SpecImports: the requests held by the context, in order
    passes,     \* SpecImports: the passes of AddImportsVisitor run so far
    raised,     \* SpecImports: the last operation ended with an exception
    upstream    \* SpecImports: the requests the passes of this run may make

tokvars == <<tin, tout>>
callvars == <<calls, results, warnings, status>>
importvars == <<tree, scratch, passes, raised, upstream>>
vars == <<tin, tout, calls, results, warnings, status,
          tree, scratch, passes, raised, upstream>>

(***************************************************************************)
(* Bounds and alphabets                                                    *)
(***************************************************************************)
MaxTokLen == 5
MaxFmtLen == 3
MaxPieces == 3
MaxArgs == 2
MaxStatements == 2
MaxRequests == 2
MaxPasses == 2

\* the characters the tokenizer and the field splitter tell apart, and "a"
TokChars == {"{", "}", ":", "!", "[", "]", "a"}

Strings(chars, n) == UNION {[1..k -> chars] : k \in 0..n}

(***************************************************************************)
(* Optional[str]                                                           *)
(***************************************************************************)
None == [some |-> FALSE, v |-> <<>>]
Some(s) == [some |-> TRUE, v |-> s]

Null == [kind |-> "null"]

(***************************************************************************)
(* _get_field: split a field's text into name, format spec, conversion     *)
(***************************************************************************)
\* position of the first ":" met while in_index = 0, or 0 when there is none
RECURSIVE spec_colon(_, _, _)
spec_colon(formatstr, pos, in_index) ==
    IF pos > Len(formatstr) THEN 0
    ELSE LET char == formatstr[pos] IN
         IF char = "[" THEN spec_colon(formatstr, pos + 1, in_index + 1)
         ELSE IF char = "]" THEN spec_colon(formatstr, pos + 1, in_index - 1)
         ELSE IF char = ":" /\ in_index = 0 THEN pos
         ELSE spec_colon(formatstr, pos + 1, in_index)

\* position of the first occurrence of c in s, or 0
RECURSIVE find_char(_, _, _)
find_char(s, c, pos) ==
    IF pos > Len(s) THEN 0
    ELSE IF s[pos] = c THEN pos
    ELSE find_char(s, c, pos + 1)

_get_field(formatstr) ==
    LET colon == spec_colon(formatstr, 1, 0)
        name1 == IF colon = 0 THEN formatstr ELSE SubSeq(formatstr, 1, colon - 1)
        format_spec == IF colon = 0 THEN None
                       ELSE Some(SubSeq(formatstr, colon + 1, Len(formatstr)))
        bang == find_char(name1, "!", 1)
        field_name == IF bang = 0 THEN name1 ELSE SubSeq(name1, 1, bang - 1)
        conversion == IF bang = 0 THEN None
                      ELSE Some(SubSeq(name1, bang + 1, Len(name1)))
    IN [field_name |-> field_name, format_spec |-> format_spec,
        conversion |-> conversion]

(***************************************************************************)
(* _get_tokens: the generator.  A generator state holds the locals of the  *)
(* function; gen_next runs the body up to the next yield, raise or return. *)
(***************************************************************************)
Token(literal_text, field_name, format_spec, conversion) ==
    [literal_text |-> literal_text, field_name |-> field_name,
     format_spec |-> format_spec, conversion |-> conversion]

gen_start ==
    [pos |-> 1, prefix |-> <<>>, format_accum |-> <<>>, in_brackets |-> 0,
     seen_escape |-> FALSE, finished |-> FALSE]

\* place, with the second brace of an escape dropped
place_unescaped(g, char) ==
    IF g.seen_escape THEN [g EXCEPT !.pos = @ + 1]
    ELSE IF g.in_brackets = 0
    THEN [g EXCEPT !.prefix = Append(@, char), !.pos = @ + 1]
    ELSE [g EXCEPT !.format_accum = Append(@, char), !.pos = @ + 1]

\* "Place in the correct accumulator"
place(g, char) ==
    IF g.in_brackets = 0
    THEN [g EXCEPT !.prefix = Append(@, char), !.pos = @ + 1]
    ELSE [g EXCEPT !.format_accum = Append(@, char), !.pos = @ + 1]

\* does the character at pos open an escape ({{ or }} outside any field)?
is_escape(string, g) ==
    /\ g.in_brackets = 0
    /\ g.pos < Len(string)
    /\ \/ string[g.pos] = "{" /\ string[g.pos + 1] = "{"
       \/ string[g.pos] = "}" /\ string[g.pos + 1] = "}"

\* gen_finish without the check for an unclosed brace
gen_finish_unchecked(g) ==
    IF g.format_accum # <<>>
    THEN [kind |-> "raise", msg |-> "Logic error", gen |-> g]
    ELSE [kind |-> "yield",
          tok |-> Token(g.prefix, None, None, None),
          gen |-> [g EXCEPT !.finished = TRUE]]

\* after the loop: the two checks, then "Yield the last bit of information"
gen_finish(g) ==
    IF g.in_brackets > 0 THEN [kind |-> "raise", msg |-> "Stray {", gen |-> g]
    ELSE IF g.format_accum # <<>>
    THEN [kind |-> "raise", msg |-> "Logic error", gen |-> g]
    ELSE [kind |-> "yield",
          tok |-> Token(g.prefix, None, None, None),
          gen |-> [g EXCEPT !.finished = TRUE]]

RECURSIVE gen_next(_, _)
gen_next(string, g) ==
    IF g.finished THEN [kind |-> "stop", gen |-> g]
    ELSE IF g.pos > Len(string) THEN gen_finish(g)
    ELSE LET char == string[g.pos] IN
        IF g.seen_escape THEN
            gen_next(string, [place(g, char) EXCEPT !.seen_escape = FALSE])
        ELSE IF is_escape(string, g) THEN
            gen_next(string, [place(g, char) EXCEPT !.seen_escape = TRUE])
        ELSE IF char = "{" THEN
            LET g1 == [g EXCEPT !.in_brackets = @ + 1] IN
            IF g1.in_brackets = 1
            THEN gen_next(string, [g1 EXCEPT !.pos = @ + 1])
            ELSE gen_next(string, place(g1, char))
        ELSE IF char = "}" THEN
            LET g1 == [g EXCEPT !.in_brackets = @ - 1] IN
            IF g1.in_brackets < 0
            THEN [kind |-> "raise", msg |-> "Stray }", gen |-> g1]
            ELSE IF g1.in_brackets = 0 THEN
                LET f == _get_field(g1.format_accum) IN
                [kind |-> "yield",
                 tok |-> Token(g1.prefix, Some(f.field_name), f.format_spec,
                               f.conversion),
                 gen |-> [g1 EXCEPT !.prefix = <<>>, !.format_accum = <<>>,
                                    !.pos = @ + 1]]
            ELSE gen_next(string, place(g1, char))
        ELSE gen_next(string, place(g, char))

\* list(_get_tokens(string)): every token up to the end, or the exception
RECURSIVE drain(_, _, _)
drain(string, g, acc) ==
    LET r == gen_next(string, g) IN
    IF r.kind = "yield" THEN drain(string, r.gen, Append(acc, r.tok))
    ELSE IF r.kind = "raise" THEN [kind |-> "raise", msg |-> r.msg, tokens |-> acc]
    ELSE [kind |-> "ok", msg |-> "", tokens |-> acc]

_get_tokens(string) == drain(string, gen_start, <<>>)

(***************************************************************************)
(* Text helpers                                                            *)
(***************************************************************************)
SQ == "'"
DQ == "\""
BS == "\\"
QuoteChars == {SQ, DQ}
Digits == <<"0", "1", "2", "3", "4", "5", "6", "7", "8", "9">>
DigitSet == {Digits[i] : i \in 1..10}
Letters == {"a", "b", "d", "i", "k", "r", "s", "x", "y"}

\* does text s contain character c?
has_char(s, c) == \E i \in 1..Len(s) : s[i] = c

\* int("...") of a run of digits
RECURSIVE to_int(_)
to_int(s) ==
    IF s = <<>> THEN 0
    ELSE 10 * to_int(SubSeq(s, 1, Len(s) - 1))
         + ((CHOOSE i \in 1..10 : Digits[i] = s[Len(s)]) - 1)

\* str(n)
RECURSIVE to_str(_)
to_str(n) ==
    IF n < 10 THEN <<Digits[n + 1]>>
    ELSE Append(to_str(n \div 10), Digits[(n % 10) + 1])

(***************************************************************************)
(* Expressions.  An expression is the sequence of its leaves in source     *)
(* order, each with its node type and its text, and whether the top node   *)
(* carries parentheses (lpar/rpar).  The visitors of this command act on   *)
(* every node of one type, wherever it is, which the flat form keeps.      *)
(*   code     names, numbers, operators, punctuation                       *)
(*   str      a SimpleString, v its raw value (prefix, quotes, innards)    *)
(*   comment  a Comment                                                    *)
(*   fstr     a FormattedString                                            *)
(*   await    an Await                                                     *)
(*   pws      a ParenthesizedWhitespace (whitespace holding a newline)     *)
(*   ws       a SimpleWhitespace                                           *)
(***************************************************************************)
Atom(t, v) == [t |-> t, v |-> v]
Expr(atoms, par) == [atoms |-> atoms, par |-> par]

RECURSIVE atoms_text(_)
atoms_text(atoms) ==
    IF atoms = <<>> THEN <<>> ELSE Head(atoms).v \o atoms_text(Tail(atoms))

\* Module.code_for_node(expr)
code_for_node(expr) ==
    IF expr.par THEN <<"(">> \o atoms_text(expr.atoms) \o <<")">>
    ELSE atoms_text(expr.atoms)

\* self.findall(expr, m.<Type>()) is non-empty
findall(expr, t) == \E i \in 1..Len(expr.atoms) : expr.atoms[i].t = t

\* Arg(value, keyword, star)
Arg(star, keyword, value) == [star |-> star, keyword |-> keyword, value |-> value]
Positional(value) == Arg("", None, value)
Keyword(name, value) == Arg("", Some(name), value)

(***************************************************************************)
(* _string_prefix_and_quotes                                               *)
(***************************************************************************)
\* the first loop: index of the first quote character, or 0 (pos stays 0,
\* and the whole string has gone to prefix)
RECURSIVE first_quote(_, _)
first_quote(string, i) ==
    IF i > Len(string) THEN 0
    ELSE IF string[i] \in QuoteChars THEN i
    ELSE first_quote(string, i + 1)

\* the second loop: the run of the same quote character starting at i
RECURSIVE quote_run(_, _, _)
quote_run(string, i, quote) ==
    IF i > Len(string) THEN quote
    ELSE IF string[i] \notin QuoteChars THEN quote
    ELSE IF quote # <<>> /\ string[i] # quote[1] THEN quote
    ELSE quote_run(string, i + 1, Append(quote, string[i]))

\* lines 89-100, given the prefix and the run of quotes the loops found
split_string(string, prefix, run) ==
    IF Len(run) \notin {1, 2, 3, 6}
    THEN [ok |-> FALSE, prefix |-> prefix, quote |-> run, innards |-> <<>>]
    ELSE IF Len(run) \in {1, 2}
    THEN [ok |-> TRUE, prefix |-> prefix, quote |-> SubSeq(run, 1, 1),
          innards |-> SubSeq(string, Len(prefix) + 2, Len(string) - 1)]
    ELSE [ok |-> TRUE, prefix |-> prefix, quote |-> SubSeq(run, 1, 3),
          innards |-> SubSeq(string, Len(prefix) + 4, Len(string) - 3)]

\* the loops, given the index of the first quote character (0: none, the
\* whole string is the prefix and pos stays at the start)
split_at(string, fq) ==
    IF fq = 0 THEN split_string(string, string, quote_run(string, 1, <<>>))
    ELSE split_string(string, SubSeq(string, 1, fq - 1),
                      quote_run(string, fq, <<>>))

_string_prefix_and_quotes(string) == split_at(string, first_quote(string, 1))

(***************************************************************************)
(* cst.parse_expression on a field name, and _get_lhs.  A field name is    *)
(* an integer or a name followed by .attr and [sub] accessors; anything    *)
(* else either fails to parse or has a head _get_lhs raises on, and both   *)
(* propagate out of leave_Call.  The result names the head (the innermost  *)
(* value of the Attribute/Subscript chain): its kind, its text, and the    *)
(* span hs..he of the head node, its own parentheses included.             *)
(***************************************************************************)
ParseFail ==
    [ok |-> FALSE, pos |-> 0, hs |-> 0, he |-> 0, hkind |-> "", htext |-> <<>>,
     bare |-> FALSE]

Keywords == {<<"a", "s">>, <<"i", "s">>}

\* first index >= pos whose character is not in set
RECURSIVE scan(_, _, _)
scan(s, pos, set) ==
    IF pos > Len(s) \/ s[pos] \notin set THEN pos ELSE scan(s, pos + 1, set)

RECURSIVE parse_expr(_, _)
RECURSIVE parse_trailers(_, _, _)

parse_atom(s, pos) ==
    IF pos > Len(s) THEN ParseFail
    ELSE IF s[pos] \in DigitSet THEN
        LET e == scan(s, pos, DigitSet)
            text == SubSeq(s, pos, e - 1)
        IN IF \/ e <= Len(s) /\ s[e] \in Letters
              \/ text[1] = "0" /\ \E i \in 1..Len(text) : text[i] # "0"
           THEN ParseFail
           ELSE [ok |-> TRUE, pos |-> e, hs |-> pos, he |-> e - 1, hkind |-> "int",
                 htext |-> text, bare |-> TRUE]
    ELSE IF s[pos] \in Letters THEN
        LET e == scan(s, pos, Letters \cup DigitSet)
            text == SubSeq(s, pos, e - 1)
        IN IF text \in Keywords THEN ParseFail
           ELSE [ok |-> TRUE, pos |-> e, hs |-> pos, he |-> e - 1, hkind |-> "name",
                 htext |-> text, bare |-> TRUE]
    ELSE IF s[pos] = "(" THEN
        LET r == parse_expr(s, pos + 1) IN
        IF r.ok /\ r.pos <= Len(s) /\ s[r.pos] = ")"
        THEN [r EXCEPT !.pos = r.pos + 1,
                       !.hs = IF r.bare THEN pos ELSE @,
                       !.he = IF r.bare THEN r.pos ELSE @]
        ELSE ParseFail
    ELSE ParseFail

\* the inside of [ ... ]: an expression, or a slice lower:upper
parse_subscript(s, pos) ==
    LET lo == IF pos <= Len(s) /\ s[pos] \in {":", "]"}
              THEN [ok |-> TRUE, pos |-> pos, empty |-> TRUE]
              ELSE LET r == parse_expr(s, pos)
                   IN [ok |-> r.ok, pos |-> r.pos, empty |-> FALSE]
    IN IF ~lo.ok THEN [ok |-> FALSE, pos |-> 0]
       ELSE IF lo.pos <= Len(s) /\ s[lo.pos] = ":" THEN
            IF lo.pos + 1 <= Len(s) /\ s[lo.pos + 1] = "]"
            THEN [ok |-> TRUE, pos |-> lo.pos + 1]
            ELSE LET hi == parse_expr(s, lo.pos + 1)
                 IN [ok |-> hi.ok, pos |-> hi.pos]
       ELSE [ok |-> ~lo.empty, pos |-> lo.pos]

parse_trailers(s, pos, r) ==
    IF pos > Len(s) THEN [r EXCEPT !.pos = pos]
    ELSE IF s[pos] = "." THEN
        LET e == scan(s, pos + 1, Letters \cup DigitSet) IN
        IF pos + 1 > Len(s) \/ s[pos + 1] \notin Letters
           \/ SubSeq(s, pos + 1, e - 1) \in Keywords
        THEN ParseFail
        ELSE parse_trailers(s, e, [r EXCEPT !.bare = FALSE])
    ELSE IF s[pos] = "[" THEN
        LET sub == parse_subscript(s, pos + 1) IN
        IF sub.ok /\ sub.pos <= Len(s) /\ s[sub.pos] = "]"
        THEN parse_trailers(s, sub.pos + 1, [r EXCEPT !.bare = FALSE])
        ELSE ParseFail
    ELSE [r EXCEPT !.pos = pos]

parse_expr(s, pos) ==
    LET a == parse_atom(s, pos) IN
    IF a.ok THEN parse_trailers(s, a.pos, a) ELSE ParseFail

\* cst.parse_expression(fieldname) followed by _get_lhs(field_expr)
parse_expression(fieldname) ==
    LET r == parse_expr(fieldname, 1) IN
    IF r.ok /\ r.pos = Len(fieldname) + 1 THEN r ELSE ParseFail

(***************************************************************************)
(* _find_expr_from_field_name                                              *)
(***************************************************************************)
\* the "0.name" trick: "(ind).exp"
wrap_lhs(fieldname) ==
    IF has_char(fieldname, ".")
    THEN LET d == find_char(fieldname, ".", 1) IN
         <<"(">> \o SubSeq(fieldname, 1, d - 1) \o <<")", ".">>
                 \o SubSeq(fieldname, d + 1, Len(fieldname))
    ELSE fieldname

\* the index of the argument the head names: 0-based, or -1 when there is none
arg_index(p, args) ==
    IF p.hkind = "int" THEN
        LET index == to_int(p.htext) IN
        IF index < 0 \/ index >= Len(args) THEN -1 ELSE index
    ELSE
        LET hits == {i \in 1..Len(args) :
                        args[i].keyword.some /\ args[i].keyword.v = p.htext}
        IN IF hits = {} THEN -1
           ELSE (CHOOSE i \in hits : \A j \in hits : i <= j) - 1

\* field_expr.deep_replace(lhs, value)
deep_replace(text, p, value) ==
    IF p.bare THEN value
    ELSE LET before == SubSeq(text, 1, p.hs - 1)
             after == SubSeq(text, p.he + 1, Len(text))
             inner == IF value.par
                      THEN <<Atom("code", <<"(">>)>> \o value.atoms
                           \o <<Atom("code", <<")">>)>>
                      ELSE value.atoms
         IN Expr((IF before = <<>> THEN <<>> ELSE <<Atom("code", before)>>)
                 \o inner
                 \o (IF after = <<>> THEN <<>> ELSE <<Atom("code", after)>>),
                 FALSE)

NoExpr == Expr(<<>>, FALSE)

\* lines 42-67, given the text that was parsed and the head found in it
find_expr(text, p, args) ==
    IF ~p.ok
    THEN [kind |-> "raise", msg |-> "unsupported fieldname expression",
          index |-> -1, expr |-> NoExpr]
    ELSE IF \E i \in 1..Len(args) : args[i].star # ""
    THEN [kind |-> "none", msg |-> "", index |-> -1, expr |-> NoExpr]
    ELSE IF arg_index(p, args) = -1
    THEN [kind |-> "raise", msg |-> "out of bounds", index |-> -1,
          expr |-> NoExpr]
    ELSE [kind |-> "ok", msg |-> "", index |-> arg_index(p, args),
          expr |-> deep_replace(text, p, args[arg_index(p, args) + 1].value)]

_find_expr_from_field_name(fieldname, args) ==
    find_expr(wrap_lhs(fieldname), parse_expression(wrap_lhs(fieldname)), args)

(***************************************************************************)
(* ast.literal_eval on the text of a string literal: the value, or a       *)
(* failure.  A prefix holding r makes the literal raw; adjacent literals   *)
(* are concatenated.                                                       *)
(***************************************************************************)
EvalFail == [ok |-> FALSE, val |-> <<>>]

\* the body of one literal from pos on; q is the quote character, n the
\* length of the delimiter (1 or 3)
RECURSIVE eval_body(_, _, _, _, _, _)
RECURSIVE eval_literals(_, _, _, _)

eval_body(s, pos, q, n, raw, val) ==
    IF pos > Len(s) THEN EvalFail
    ELSE IF s[pos] = BS THEN
        IF pos + 1 > Len(s) THEN EvalFail
        ELSE IF ~raw /\ s[pos + 1] \in {SQ, DQ, BS}
        THEN eval_body(s, pos + 2, q, n, raw, Append(val, s[pos + 1]))
        ELSE eval_body(s, pos + 2, q, n, raw, val \o <<BS, s[pos + 1]>>)
    ELSE IF /\ s[pos] = q
            /\ n = 3 => pos + 2 <= Len(s) /\ s[pos + 1] = q /\ s[pos + 2] = q
    THEN eval_literals(s, pos + n, raw, val)
    ELSE eval_body(s, pos + 1, q, n, raw, Append(val, s[pos]))

\* a literal has just ended before pos: the end of the text, or one more
eval_literals(s, pos, raw, val) ==
    IF pos > Len(s) THEN [ok |-> TRUE, val |-> val]
    ELSE IF s[pos] \notin QuoteChars THEN EvalFail
    ELSE IF pos + 2 <= Len(s) /\ s[pos + 1] = s[pos] /\ s[pos + 2] = s[pos]
    THEN eval_body(s, pos + 3, s[pos], 3, raw, val)
    ELSE eval_body(s, pos + 1, s[pos], 1, raw, val)

literal_eval(s) ==
    LET fq == first_quote(s, 1) IN
    IF fq = 0 THEN EvalFail
    ELSE eval_literals(s, fq, has_char(SubSeq(s, 1, fq - 1), "r"), <<>>)

(***************************************************************************)
(* The transformers and the gatherer applied to a field's expression       *)
(***************************************************************************)
\* StripNewlinesTransformer.leave_ParenthesizedWhitespace
leave_ParenthesizedWhitespace(atom) ==
    IF atom.t = "pws" THEN Atom("ws", <<" ">>) ELSE atom

\* expr.visit(StripNewlinesTransformer(context))
strip_newlines(expr) ==
    [expr EXCEPT !.atoms = [i \in 1..Len(expr.atoms) |->
                              leave_ParenthesizedWhitespace(expr.atoms[i])]]

\* quote.replace(avoid_quote, replace_quote)
replace_quote_in(quote, avoid_quote, replace_quote) ==
    [i \in 1..Len(quote) |-> IF quote[i] = avoid_quote THEN replace_quote
                             ELSE quote[i]]

\* lines 238-249: the swapped value when both texts evaluate to the same
\* string, else the old one
swap_if_same(value, new_value) ==
    IF ~literal_eval(value).ok \/ ~literal_eval(new_value).ok THEN value
    ELSE IF literal_eval(value).val # literal_eval(new_value).val THEN value
    ELSE new_value

\* lines 232-252, given the prefix, quote and innards of the value
switch_string(value, p, avoid_quote, replace_quote) ==
    IF ~p.ok THEN [ok |-> FALSE, value |-> value]
    ELSE IF has_char(p.quote, avoid_quote)
    THEN [ok |-> TRUE,
          value |-> swap_if_same(value,
                        p.prefix
                        \o replace_quote_in(p.quote, avoid_quote, replace_quote)
                        \o p.innards
                        \o replace_quote_in(p.quote, avoid_quote, replace_quote))]
    ELSE [ok |-> TRUE, value |-> value]

\* SwitchStringQuotesTransformer.leave_SimpleString: the new value of the
\* node; ok is FALSE when _string_prefix_and_quotes raises
leave_SimpleString(value, avoid_quote) ==
    switch_string(value, _string_prefix_and_quotes(value), avoid_quote,
                  IF avoid_quote = SQ THEN DQ ELSE SQ)

\* expr.visit(SwitchStringQuotesTransformer(context, avoid_quote))
switch_quotes_raises(expr, avoid_quote) ==
    \E i \in 1..Len(expr.atoms) :
        /\ expr.atoms[i].t = "str"
        /\ ~leave_SimpleString(expr.atoms[i].v, avoid_quote).ok

switch_quotes(expr, avoid_quote) ==
    [expr EXCEPT !.atoms = [i \in 1..Len(expr.atoms) |->
        IF expr.atoms[i].t = "str"
        THEN Atom("str", leave_SimpleString(expr.atoms[i].v, avoid_quote).value)
        ELSE expr.atoms[i]]]

\* StringQuoteGatherer: node.value[-1] of every SimpleString
stringends(expr) ==
    {expr.atoms[i].v[Len(expr.atoms[i].v)] :
        i \in {j \in 1..Len(expr.atoms) : expr.atoms[j].t = "str"}}

(***************************************************************************)
(* ConvertFormatStringCommand.leave_Call                                   *)
(***************************************************************************)
\* what leave_Call ends with: the node it returns (updated_node itself, or a
\* FormattedString), or the exception that leaves it; warn is the warning
\* it has emitted, "" when none
Unchanged(warn) ==
    [kind |-> "unchanged", parts |-> <<>>, start |-> <<>>, end |-> <<>>,
     warn |-> warn, msg |-> ""]
Raised(msg) ==
    [kind |-> "raise", parts |-> <<>>, start |-> <<>>, end |-> <<>>,
     warn |-> "", msg |-> msg]
FormattedString(parts, start, end) ==
    [kind |-> "fstring", parts |-> parts, start |-> start, end |-> end,
     warn |-> "", msg |-> ""]

FormattedStringText(value) ==
    [t |-> "text", v |-> value, expr |-> NoExpr, conversion |-> None]
FormattedStringExpression(expression, conversion) ==
    [t |-> "expr", v |-> <<>>, expr |-> expression, conversion |-> conversion]

\* lines 304-316: the node of the expression the command gives up on
unsupported_node(expr) ==
    IF findall(expr, "comment") THEN "comment"
    ELSE IF findall(expr, "fstr") THEN "f-string"
    ELSE IF findall(expr, "await") THEN "await"
    ELSE ""

\* lines 340-345: parentheses around an expression that starts or ends
\* with a brace
wrap_braces(expr, raw_expr_string) ==
    IF /\ raw_expr_string # <<>>
       /\ \/ raw_expr_string[1] = "{"
          \/ raw_expr_string[Len(raw_expr_string)] = "}"
       /\ ~expr.par
    THEN [expr EXCEPT !.par = TRUE] ELSE expr

\* lines 347-355: the quotes of the strings against the outer quote
embed_quoted(expr0, expr, quote) ==
    IF \E stringend \in stringends(expr) : has_char(quote, stringend)
    THEN [kind |-> "warn", why |-> "same quote", expr |-> expr0]
    ELSE [kind |-> "ok", why |-> "", expr |-> expr]

\* lines 330-355, given the expression with its quotes switched
embed_switched(expr0, expr, raw_expr_string, quote) ==
    IF has_char(raw_expr_string, BS)
    THEN [kind |-> "warn", why |-> "backslash", expr |-> expr0]
    ELSE embed_quoted(expr0, wrap_braces(expr, raw_expr_string), quote)

\* lines 324-355, given the expression with its newlines stripped
embed_stripped(expr0, expr, quote) ==
    IF switch_quotes_raises(expr, quote[1])
    THEN [kind |-> "raise", why |-> "Invalid string", expr |-> expr0]
    ELSE embed_switched(expr0, switch_quotes(expr, quote[1]),
                        code_for_node(switch_quotes(expr, quote[1])), quote)

\* lines 300-355: the checks and rewrites of one field's expression
embed_expr(expr0, quote) ==
    IF unsupported_node(expr0) # ""
    THEN [kind |-> "warn", why |-> unsupported_node(expr0), expr |-> expr0]
    ELSE embed_stripped(expr0, strip_newlines(expr0), quote)

\* abort_call returning what has been collected so far
abort_call_partial(c, fstring, warn) ==
    [kind |-> "fstring", parts |-> fstring, start |-> <<"f">> \o c.prefix \o c.quote,
     end |-> c.quote, warn |-> warn, msg |-> ""]

\* "self.warn(...); return updated_node": the call is given up, whatever
\* parts have been collected
abort_call(c, fstring, warn) == Unchanged(warn)

\* unsupported_format_spec letting a one-character spec through
unsupported_format_spec_long(format_spec) ==
    format_spec.some /\ Len(format_spec.v) > 1

\* line 283: a format spec the command does not support
unsupported_format_spec(format_spec) ==
    format_spec.some /\ Len(format_spec.v) > 0

\* next_sequence advancing on every field
next_sequence_always(field_name, inserted_sequence) == inserted_sequence + 1

\* "Auto-insert field sequence if it is empty": the counter after a field
next_sequence(field_name, inserted_sequence) ==
    IF field_name = <<>> THEN inserted_sequence + 1 ELSE inserted_sequence

ValidQuotes == {<<DQ>>, <<DQ, DQ, DQ>>, <<SQ>>, <<SQ, SQ, SQ>>}

RECURSIVE call_loop(_, _, _, _)

\* lines 300-361 of the loop body: the expression found is embedded
loop_embed(c, g, tok, fstring, inserted_sequence, e) ==
    IF e.kind = "raise" THEN Raised(e.why)
    ELSE IF e.kind = "warn" THEN abort_call(c, fstring, e.why)
    ELSE call_loop(c, g,
                   Append(fstring,
                          FormattedStringExpression(e.expr, tok.conversion)),
                   next_sequence(tok.field_name.v, inserted_sequence))

\* lines 294-298 of the loop body: the field name has been looked up
loop_found(c, g, tok, fstring, inserted_sequence, found) ==
    IF found.kind = "raise" THEN Raised(found.msg)
    ELSE IF found.kind = "none" THEN abort_call(c, fstring, "field_name")
    ELSE loop_embed(c, g, tok, fstring, inserted_sequence,
                    embed_expr(found.expr, c.quote))

\* lines 280-294 of the loop body
loop_field(c, g, tok, fstring, inserted_sequence) ==
    IF ~tok.field_name.some THEN call_loop(c, g, fstring, inserted_sequence)
    ELSE IF unsupported_format_spec(tok.format_spec)
    THEN abort_call(c, fstring, "format_spec")
    ELSE loop_found(c, g, tok, fstring, inserted_sequence,
            _find_expr_from_field_name(
                IF tok.field_name.v = <<>> THEN to_str(inserted_sequence)
                ELSE tok.field_name.v,
                c.args))

\* what the generator gave: an exception, the end, or a token
loop_step(c, r, fstring, inserted_sequence) ==
    IF r.kind = "raise" THEN Raised(r.msg)
    ELSE IF r.kind = "stop" THEN
        IF c.quote \notin ValidQuotes THEN Raised("Invalid f-string quote")
        ELSE FormattedString(fstring, <<"f">> \o c.prefix \o c.quote, c.quote)
    ELSE loop_field(c, r.gen, r.tok,
                    IF r.tok.literal_text # <<>>
                    THEN Append(fstring, FormattedStringText(r.tok.literal_text))
                    ELSE fstring,
                    inserted_sequence)

\* the for loop over the tokens, resumed at generator state g
call_loop(c, g, fstring, inserted_sequence) ==
    loop_step(c, gen_next(c.innards, g), fstring, inserted_sequence)

\* a Call node: func is <SimpleString value>.format when isformat, args
Call(isformat, value, args) ==
    [isformat |-> isformat, value |-> value, args |-> args]

\* lines 275-371, given the prefix, quote and innards of the string
rewrite_call(updated_node, p) ==
    IF ~p.ok THEN Raised("Invalid string")
    ELSE call_loop([args |-> updated_node.args, prefix |-> p.prefix,
                    quote |-> p.quote, innards |-> p.innards],
                   gen_start, <<>>, 0)

leave_Call(updated_node) ==
    IF ~updated_node.isformat THEN Unchanged("")
    ELSE rewrite_call(updated_node, _string_prefix_and_quotes(updated_node.value))

(***************************************************************************)
(* AddImportsVisitor.  A module is the sequence of its top-level           *)
(* statements; a statement is named by its position in the original body,  *)
(* which is what identity of nodes comes to within one pass.  A request is *)
(* a pair <<module, obj>>, obj being <<>> for None and <<name>> otherwise. *)
(***************************************************************************)
Future == "__future__"

\* the names of the model in the order Python's sorted() gives them
SortedNames == <<Future, "a", "b", "x", "y">>

sorted(names) == SelectSeq(SortedNames, LAMBDA n : n \in names)

reversed(seq) == [i \in 1..Len(seq) |-> seq[Len(seq) + 1 - i]]

Statement(kind, module, names, relative, leading_lines) ==
    [kind |-> kind, module |-> module, names |-> names,
     relative |-> relative, leading_lines |-> leading_lines]

\* import <module>
Import(module) == Statement("Import", module, <<>>, 0, <<>>)

\* from <module> import <names>, with <<"*">> for an ImportStar
ImportFrom(module, names, relative) ==
    Statement("ImportFrom", module, names, relative, <<>>)

IsImportStar(node) == node.kind = "ImportFrom" /\ node.names = <<"*">>

\* <target> = True
Assign(target) == Statement("Assign", target, <<>>, 0, <<>>)

\* any other statement, simple or compound, holding no import
Pass(leading_lines) == Statement("Pass", "", <<>>, 0, leading_lines)

\* what parse_statement makes of the text f"import {module}"
parse_import(module) == Import(module)

\* what parse_statement makes of f"from {module} import {', '.join(names)}"
parse_import_from(module, names) == ImportFrom(module, names, 0)

\* GatherImportsVisitor: the modules imported bare, the names imported from
\* each module of a from-import that is not relative ("*" for a star), and
\* every import statement met, by identity
gathered_from(body, module) ==
    UNION {{body[i].names[j] : j \in 1..Len(body[i].names)} :
              i \in {k \in 1..Len(body) :
                        /\ body[k].kind = "ImportFrom"
                        /\ body[k].relative = 0
                        /\ body[k].module = module}}

GatherImportsVisitor(body) ==
    [module_imports |->
        {body[i].module : i \in {k \in 1..Len(body) : body[k].kind = "Import"}},
     object_mapping |->
        [module \in {body[i].module :
                        i \in {k \in 1..Len(body) :
                                  /\ body[k].kind = "ImportFrom"
                                  /\ body[k].relative = 0}}
            |-> gathered_from(body, module)],
     all_imports |->
        SelectSeq([i \in 1..Len(body) |-> i],
                  LAMBDA i : body[i].kind \in {"Import", "ImportFrom"})]

\* add_needed_import without its check of the request
add_needed_import_unchecked(imports, module, obj) ==
    [kind |-> "ok", imports |-> Append(imports, <<module, obj>>)]

\* add_needed_import: the list of the context with the request appended, or
\* the exception for a bare __future__
add_needed_import(imports, module, obj) ==
    IF module = Future /\ obj = <<>> THEN [kind |-> "raise", imports |-> imports]
    ELSE [kind |-> "ok", imports |-> Append(imports, <<module, obj>>)]

requested(imports, module) ==
    {imports[i][2][1] :
        i \in {k \in 1..Len(imports) :
                  imports[k][1] = module /\ imports[k][2] # <<>>}}

Entry(module, imports) == [module |-> module, imports |-> imports]

\* the dict built over sorted(from_imports)
init_mapping(imports, from_imports) ==
    [i \in 1..Len(from_imports) |->
        Entry(from_imports[i], requested(imports, from_imports[i]))]

\* the visitor of an __init__ that builds the mapping over the modules in
\* another order than the sorted one
new_visitor_unsorted(imports) ==
    IF \E i \in 1..Len(imports) : imports[i] = <<Future, <<>>>>
    THEN [kind |-> "raise"]
    ELSE [kind |-> "ok",
          module_imports |->
              {imports[i][1] :
                  i \in {k \in 1..Len(imports) : imports[k][2] = <<>>}},
          module_mapping |->
              init_mapping(imports,
                  reversed(sorted({imports[i][1] :
                      i \in {k \in 1..Len(imports) : imports[k][2] # <<>>}}))),
          all_imports |-> <<>>]

\* the visitor __init__ makes of the requests, or the exception for a bare
\* __future__ among them
new_visitor(imports) ==
    IF \E i \in 1..Len(imports) : imports[i] = <<Future, <<>>>>
    THEN [kind |-> "raise"]
    ELSE [kind |-> "ok",
          module_imports |->
              {imports[i][1] :
                  i \in {k \in 1..Len(imports) : imports[k][2] = <<>>}},
          module_mapping |->
              init_mapping(imports,
                  sorted({imports[i][1] :
                      i \in {k \in 1..Len(imports) : imports[k][2] # <<>>}})),
          all_imports |-> <<>>]

\* __init__, given the list of the context and the list passed directly
init_visitor(context_imports, direct_imports) ==
    new_visitor(context_imports \o direct_imports)

\* what visit_Module leaves of one entry of the mapping, empty for an entry
\* it deletes: a star is taken as a name like any other
left_to_import_star_blind(entry, object_mapping) ==
    IF entry.module \notin DOMAIN object_mapping THEN entry.imports
    ELSE entry.imports \ object_mapping[entry.module]

\* what visit_Module leaves of one entry of the mapping, empty for an entry
\* it deletes
left_to_import(entry, object_mapping) ==
    IF entry.module \notin DOMAIN object_mapping THEN entry.imports
    ELSE IF "*" \in object_mapping[entry.module] THEN {}
    ELSE entry.imports \ object_mapping[entry.module]

subtract_mapping(module_mapping, object_mapping) ==
    SelectSeq([i \in 1..Len(module_mapping) |->
                  Entry(module_mapping[i].module,
                        left_to_import(module_mapping[i], object_mapping))],
              LAMBDA entry : entry.imports # {})

\* visit_Module that forgets what the module imports already
visit_Module_blind(self, gatherer) ==
    [self EXCEPT !.all_imports = gatherer.all_imports]

visit_Module(self, gatherer) ==
    [self EXCEPT
        !.all_imports = gatherer.all_imports,
        !.module_imports = self.module_imports \ gatherer.module_imports,
        !.module_mapping =
            subtract_mapping(self.module_mapping, gatherer.object_mapping)]

mapping_has(module_mapping, module) ==
    \E i \in 1..Len(module_mapping) : module_mapping[i].module = module

mapping_get(module_mapping, module) ==
    module_mapping[CHOOSE i \in 1..Len(module_mapping) :
                      module_mapping[i].module = module].imports

mapping_del(module_mapping, module) ==
    SelectSeq(module_mapping, LAMBDA entry : entry.module # module)

\* the orders in which the sets of names asked of a module may be iterated:
\* there is one order only when every set has one name
iteration_orders(imports) ==
    IF \E module \in {imports[i][1] : i \in 1..Len(imports)} :
          Cardinality(requested(imports, module)) > 1
    THEN BOOLEAN ELSE {FALSE}

\* the order in which a set of names is iterated: any, told by reverse
iterate(names, reverse) ==
    IF reverse THEN reversed(sorted(names)) ELSE sorted(names)

Visited(module_mapping, node) ==
    [kind |-> "ok", module_mapping |-> module_mapping, node |-> node]

\* leave_ImportFrom that does not mark the module as done with
leave_ImportFrom_unconsumed(module_mapping, updated_node, reverse) ==
    IF updated_node.relative > 0 THEN Visited(module_mapping, updated_node)
    ELSE IF ~mapping_has(module_mapping, updated_node.module)
    THEN Visited(module_mapping, updated_node)
    ELSE IF IsImportStar(updated_node) THEN [kind |-> "raise"]
    ELSE Visited(module_mapping,
              [updated_node EXCEPT !.names =
                  iterate(mapping_get(module_mapping, updated_node.module),
                          reverse)
                  \o updated_node.names])

\* leave_ImportFrom: the names left to import from the module of the
\* statement come first in its list of names, the module is done with.  The
\* test names == "*" holds for no node; unpacking an ImportStar raises.
leave_ImportFrom(module_mapping, updated_node, reverse) ==
    IF updated_node.relative > 0 THEN Visited(module_mapping, updated_node)
    ELSE IF ~mapping_has(module_mapping, updated_node.module)
    THEN Visited(module_mapping, updated_node)
    ELSE IF IsImportStar(updated_node) THEN [kind |-> "raise"]
    ELSE Visited(mapping_del(module_mapping, updated_node.module),
              [updated_node EXCEPT !.names =
                  iterate(mapping_get(module_mapping, updated_node.module),
                          reverse)
                  \o updated_node.names])

\* the traversal of the statements of the module, from statement i on
RECURSIVE leave_statements(_, _, _, _)
RECURSIVE leave_statement(_, _, _, _)
leave_statement(left, body, i, reverse) ==
    IF left.kind = "raise" THEN left
    ELSE leave_statements(left.module_mapping,
                          [body EXCEPT ![i] = left.node], i + 1, reverse)

leave_statements(module_mapping, body, i, reverse) ==
    IF i > Len(body)
    THEN [kind |-> "ok", module_mapping |-> module_mapping, body |-> body]
    ELSE IF body[i].kind # "ImportFrom"
    THEN leave_statements(module_mapping, body, i + 1, reverse)
    ELSE leave_statement(leave_ImportFrom(module_mapping, body[i], reverse),
                         body, i, reverse)

Strict == "__strict__"

\* the module starts with an assignment to __strict__
starts_strict(body) ==
    Len(body) >= 1 /\ body[1].kind = "Assign" /\ body[1].module = Strict

\* the positions of the original statements that are in all_imports
import_positions(orig_body, all_imports) ==
    {i \in 1..Len(orig_body) : \E j \in 1..Len(all_imports) : all_imports[j] = i}

max_of(positions) == CHOOSE i \in positions : \A j \in positions : j <= i

\* import_add_location without the loop over the statements
import_add_location_start(orig_body, all_imports) ==
    IF starts_strict(orig_body) THEN 1 ELSE 0

import_add_location(orig_body, all_imports) ==
    IF import_positions(orig_body, all_imports) # {}
    THEN max_of(import_positions(orig_body, all_imports))
    ELSE IF starts_strict(orig_body) THEN 1 ELSE 0

split_at_location(body, location) ==
    [before |-> SubSeq(body, 1, location),
     after |-> SubSeq(body, location + 1, Len(body))]

_split_module(orig_body, updated_body, all_imports) ==
    split_at_location(updated_body, import_add_location(orig_body, all_imports))

_insert_empty_line(statements) ==
    IF Len(statements) < 1 THEN statements
    ELSE IF Len(statements[1].leading_lines) = 0
    THEN [statements EXCEPT ![1].leading_lines = <<"empty">>]
    ELSE IF statements[1].leading_lines[1] = "empty" THEN statements
    ELSE [statements EXCEPT
             ![1].leading_lines = <<"empty">> \o statements[1].leading_lines]

import_statements(module_imports) ==
    [i \in 1..Len(sorted(module_imports)) |->
        parse_import(sorted(module_imports)[i])]

from_statements(module_mapping) ==
    [i \in 1..Len(module_mapping) |->
        parse_import_from(module_mapping[i].module,
                          sorted(module_mapping[i].imports))]

\* the new body, in the order of its parts
new_body(module_imports, module_mapping, split) ==
    from_statements(SelectSeq(module_mapping,
                              LAMBDA entry : entry.module = Future))
    \o split.before
    \o import_statements(module_imports)
    \o from_statements(SelectSeq(module_mapping,
                                 LAMBDA entry : entry.module # Future))
    \o _insert_empty_line(split.after)

leave_Module(module_imports, module_mapping, all_imports, orig_body, updated_body) ==
    IF module_imports = {} /\ module_mapping = <<>> THEN updated_body
    ELSE new_body(module_imports, module_mapping,
                  _split_module(orig_body, updated_body, all_imports))

Transformed(body) == [kind |-> "ok", body |-> body]

Failed == [kind |-> "raise", body |-> <<>>]

\* the module is left, the statements having been left
transform_leave(self, left, orig_body) ==
    IF left.kind = "raise" THEN Failed
    ELSE Transformed(leave_Module(self.module_imports, left.module_mapping,
                                  self.all_imports, orig_body, left.body))

\* the module is visited, then its statements are left
transform_visit(self, body, reverse) ==
    transform_leave(self,
                    leave_statements(self.module_mapping, body, 1, reverse),
                    body)

\* the module is visited by the visitor __init__ made, if it made one
transform_init(self, body, reverse) ==
    IF self.kind = "raise" THEN Failed
    ELSE transform_visit(visit_Module(self, GatherImportsVisitor(body)),
                         body, reverse)

\* one pass of AddImportsVisitor over a module
transform_module(context_imports, direct_imports, body, reverse) ==
    transform_init(init_visitor(context_imports, direct_imports), body, reverse)

\* nothing of SpecImports is in use
IdleImports ==
    /\ tree = <<>>
    /\ scratch = <<>>
    /\ passes = <<>>
    /\ raised = FALSE
    /\ upstream = {}

(***************************************************************************)
(* SpecTokens: a format string is drawn, _get_tokens is run to the end     *)
(***************************************************************************)
IdleCalls ==
    /\ calls = <<>>
    /\ results = <<>>
    /\ warnings = <<>>
    /\ status = "running"

InitTokens ==
    /\ tin \in Strings(TokChars, MaxTokLen)
    /\ tout = Null
    /\ IdleCalls
    /\ IdleImports

Tokenize ==
    /\ tout = Null
    /\ tout' = _get_tokens(tin)
    /\ UNCHANGED <<tin, callvars, importvars>>

NextTokens == Tokenize

SpecTokens == InitTokens /\ [][NextTokens]_vars


(***************************************************************************)
(* Spec: the calls of a file are left one after the other                  *)
(***************************************************************************)
\* the characters of the format strings tried exhaustively
FmtChars == {"{", "}", ":", "!", "0", "1", "k", "."}

Name(n) == Expr(<<Atom("code", <<n>>)>>, FALSE)
SimpleString(value) == Expr(<<Atom("str", value)>>, FALSE)

ExprX == Name("x")
ExprY == Name("y")
\* "it's"
ExprIts == SimpleString(<<DQ, "i", "t", SQ, "s", DQ>>)
\* 'a'
ExprSqA == SimpleString(<<SQ, "a", SQ>>)
\* "a"
ExprDqA == SimpleString(<<DQ, "a", DQ>>)
\* 'i"s'
ExprSqDq == SimpleString(<<SQ, "i", DQ, "s", SQ>>)
\* 'i\'s'
ExprSqEsc == SimpleString(<<SQ, "i", BS, SQ, "s", SQ>>)
\* (x  # a <newline>)
ExprComment ==
    Expr(<<Atom("code", <<"x">>), Atom("comment", <<"#", "a">>),
           Atom("pws", <<"\n">>)>>, TRUE)
\* (x <newline>)
ExprNewline == Expr(<<Atom("code", <<"x">>), Atom("pws", <<"\n">>)>>, TRUE)
\* f"a"
ExprFString == Expr(<<Atom("fstr", <<"f", DQ, "a", DQ>>)>>, FALSE)
\* await x
ExprAwait ==
    Expr(<<Atom("await", <<"a", "w", "a", "i", "t", " ">>),
           Atom("code", <<"x">>)>>, FALSE)
\* {}
ExprDict == Expr(<<Atom("code", <<"{", "}">>)>>, FALSE)

BasicArgLists ==
    { <<>>,
      <<Positional(ExprX)>>,
      <<Positional(ExprX), Positional(ExprY)>>,
      <<Positional(ExprX), Keyword(<<"k">>, ExprY)>>,
      <<Arg("*", None, ExprX)>> }

SafetyExprs ==
    {ExprX, ExprIts, ExprSqA, ExprDqA, ExprSqDq, ExprSqEsc, ExprComment,
     ExprNewline, ExprFString, ExprAwait, ExprDict}

SafetyArgLists ==
    UNION {[1..n -> {Positional(e) : e \in SafetyExprs}] : n \in 1..MaxArgs}

SafetyFmts ==
    { <<"{", "}">>,
      <<"a", "{", "}">>,
      <<"{", "}", "{", "}">>,
      <<"{", "1", "}", "{", "0", "}">>,
      <<"{", "0", ".", "r", "}">> }

OuterQuotes == {<<SQ>>, <<DQ>>, <<DQ, DQ, DQ>>}

FormatCall(prefix, quote, innards, args) ==
    Call(TRUE, prefix \o quote \o innards \o quote, args)

\* "{}{{{}}}".format(x, y)
CallEscaped ==
    FormatCall(<<>>, <<DQ>>, <<"{", "}", "{", "{", "{", "}", "}", "}">>,
               <<Positional(ExprX), Positional(ExprY)>>)
\* "{0}, {1}!".format(a, b)
CallNumbered ==
    FormatCall(<<>>, <<DQ>>, <<"{", "0", "}", ",", " ", "{", "1", "}", "!">>,
               <<Positional(Name("a")), Positional(Name("b"))>>)
\* "{:d}".format(x)
CallSpec ==
    FormatCall(<<>>, <<DQ>>, <<"{", ":", "d", "}">>, <<Positional(ExprX)>>)
\* '{}'.format("it's")
CallIts ==
    FormatCall(<<>>, <<SQ>>, <<"{", "}">>, <<Positional(ExprIts)>>)
\* r"{0[1:2]}{k.a!r}".format(x, k=y)
CallChain ==
    FormatCall(<<"r">>, <<DQ>>,
               <<"{", "0", "[", "1", ":", "2", "]", "}",
                 "{", "k", ".", "a", "!", "r", "}">>,
               <<Positional(ExprX), Keyword(<<"k">>, ExprY)>>)
\* """"{}""".format(x): a triple-quoted string whose text starts with a quote
CallFourQuotes ==
    Call(TRUE, <<DQ, DQ, DQ, DQ, "{", "}", DQ, DQ, DQ>>, <<Positional(ExprX)>>)
\* f(x): not a format call
CallOther == Call(FALSE, <<>>, <<Positional(ExprX)>>)

ExampleCalls ==
    {CallEscaped, CallNumbered, CallSpec, CallIts, CallChain, CallFourQuotes,
     CallOther}

\* format strings put together from fields, escapes, text and stray braces
Pieces ==
    { <<"{", "}">>, <<"{", "0", "}">>, <<"{", "1", "}">>, <<"{", "k", "}">>,
      <<"{", ":", "d", "}">>, <<"{", "!", "r", "}">>, <<"{", ":", "}">>,
      <<"{", "{">>, <<"}", "}">>, <<"a">>, <<"{">>, <<"}">> }

RECURSIVE Concat(_)
Concat(ss) == IF ss = <<>> THEN <<>> ELSE Head(ss) \o Concat(Tail(ss))

PieceStrings == {Concat(ps) : ps \in Strings(Pieces, MaxPieces)}

ExhaustiveCalls ==
    {FormatCall(<<>>, <<DQ>>, innards, args) :
        innards \in Strings(FmtChars, MaxFmtLen) \cup PieceStrings,
        args \in BasicArgLists}

SafetyCalls ==
    {FormatCall(<<>>, quote, innards, args) :
        quote \in OuterQuotes, innards \in SafetyFmts, args \in SafetyArgLists}

\* a file holds one call, or two of the example calls
Files ==
    {<<c>> : c \in ExhaustiveCalls \cup SafetyCalls \cup ExampleCalls}
    \cup {<<c, d>> : c \in ExampleCalls, d \in ExampleCalls}

IdleTokens ==
    /\ tin = <<>>
    /\ tout = Null

Init ==
    /\ calls \in Files
    /\ results = <<>>
    /\ warnings = <<>>
    /\ status = "running"
    /\ IdleTokens
    /\ IdleImports

\* the traversal leaves the next call of the file
LeaveCall ==
    /\ status = "running"
    /\ Len(results) < Len(calls)
    /\ LET out == leave_Call(calls[Len(results) + 1]) IN
        /\ results' = Append(results, out)
        /\ warnings' = IF out.warn # "" THEN Append(warnings, out.warn)
                       ELSE warnings
        /\ status' = IF out.kind = "raise" THEN "fatal" ELSE status
    /\ UNCHANGED <<calls, tokvars, importvars>>

Next == LeaveCall

Spec == Init /\ [][Next]_vars

(***************************************************************************)
(* SpecImports: passes ask for imports, AddImportsVisitor runs             *)
(***************************************************************************)
\* the statements a module is made of
Statements ==
    {Import("a"),
     ImportFrom("a", <<"x">>, 0),
     ImportFrom("a", <<"b">>, 0),
     ImportFrom("a", <<"*">>, 0),
     Assign(Strict),
     Pass(<<>>),
     Pass(<<"comment">>),
     Pass(<<"empty">>)}

Modules == UNION {[1..n -> Statements] : n \in 0..MaxStatements}

\* the requests the passes of a run may make: for one module and for
\* __future__, or for two modules
RequestFamilies ==
    {{<<"a", <<>>>>, <<Future, <<>>>>,
      <<"a", <<"x">>>>, <<"a", <<"y">>>>, <<Future, <<"x">>>>},
     {<<"a", <<>>>>, <<"b", <<>>>>, <<"a", <<"x">>>>, <<"b", <<"x">>>>}}

\* the requests a pass may make
Requests == UNION RequestFamilies

\* the lists of requests a visitor may be given directly
DirectImports == {<<>>, <<<<Future, <<>>>>>>}

InitImports ==
    /\ tree \in Modules
    /\ scratch = <<>>
    /\ passes = <<>>
    /\ raised = FALSE
    /\ upstream \in RequestFamilies
    /\ IdleTokens
    /\ IdleCalls

\* a pass calls add_needed_import, before the visitor runs; an exception
\* ends the transform of the file
AddNeededImport ==
    /\ ~raised
    /\ passes = <<>>
    /\ Len(scratch) < MaxRequests
    /\ \E request \in upstream :
        LET added == add_needed_import(scratch, request[1], request[2]) IN
        /\ scratch' = added.imports
        /\ raised' = (added.kind = "raise")
    /\ UNCHANGED <<tree, passes, upstream, tokvars, callvars>>

\* what a pass of the visitor over the module is remembered by
PassRecord(imports, input, out) ==
    [imports |-> imports, input |-> input,
     kind |-> out.kind, output |-> out.body]

\* an AddImportsVisitor is made from the context, and from requests given
\* directly, and run over the module; an exception ends the transform of
\* the file and leaves the module as it is
RunPass ==
    /\ ~raised
    /\ Len(passes) < MaxPasses
    /\ \E direct_imports \in DirectImports,
          reverse \in iteration_orders(scratch) :
        LET out == transform_module(scratch, direct_imports, tree, reverse) IN
        /\ raised' = (out.kind = "raise")
        /\ tree' = IF out.kind = "raise" THEN tree ELSE out.body
        /\ passes' = Append(passes,
                           PassRecord(scratch \o direct_imports, tree, out))
    /\ UNCHANGED <<scratch, upstream, tokvars, callvars>>

NextImports == AddNeededImport \/ RunPass

SpecImports == InitImports /\ [][NextImports]_vars


(***************************************************************************)
(* Properties of the tokenizer                                             *)
(***************************************************************************)
\* the text a token stands for: its literal text, then its field
TokenText(tok) ==
    tok.literal_text
    \o (IF tok.field_name.some
        THEN <<"{">> \o tok.field_name.v
             \o (IF tok.conversion.some THEN <<"!">> \o tok.conversion.v ELSE <<>>)
             \o (IF tok.format_spec.some THEN <<":">> \o tok.format_spec.v ELSE <<>>)
             \o <<"}">>
        ELSE <<>>)

RECURSIVE Rebuild(_)
Rebuild(tokens) ==
    IF tokens = <<>> THEN <<>> ELSE TokenText(Head(tokens)) \o Rebuild(Tail(tokens))

IsFinalToken(tok) ==
    ~tok.field_name.some /\ ~tok.format_spec.some /\ ~tok.conversion.some

\* C9: when _get_tokens completes, the tokens are one per field followed by
\* one final token with null field_name, format_spec and conversion, and the
\* literal texts and fields, written back token by token, give the input.
TokenizerRoundTrip ==
    tout.kind = "ok" =>
        /\ Len(tout.tokens) >= 1
        /\ \A i \in 1..(Len(tout.tokens) - 1) : tout.tokens[i].field_name.some
        /\ IsFinalToken(tout.tokens[Len(tout.tokens)])
        /\ Rebuild(tout.tokens) = tin

\* an escape before a field that has a format spec, e.g. "{{{:}"
TokenizerRoundTripWitness ==
    /\ tout.kind = "ok"
    /\ Len(tout.tokens) >= 2
    /\ tout.tokens[1].literal_text = <<"{", "{">>
    /\ tout.tokens[1].format_spec.some

(***************************************************************************)
(* Properties of leave_Call                                                *)
(***************************************************************************)
Left == 1..Len(results)

StringOf(call) == _string_prefix_and_quotes(call.value)
TokensOf(call) == _get_tokens(StringOf(call).innards)

\* the call with the text of its format string replaced
WithInnards(call, innards) ==
    LET p == StringOf(call) IN
    Call(TRUE, p.prefix \o p.quote \o innards \o p.quote, call.args)

\* the parts of a complete rewrite: per token its literal text, when there
\* is some, then its field with its conversion
RECURSIVE Skeleton(_)
Skeleton(tokens) ==
    IF tokens = <<>> THEN <<>>
    ELSE LET tok == Head(tokens) IN
         (IF tok.literal_text # <<>>
          THEN << <<"text", tok.literal_text, None>> >> ELSE <<>>)
         \o (IF tok.field_name.some
             THEN << <<"expr", <<>>, tok.conversion>> >> ELSE <<>>)
         \o Skeleton(Tail(tokens))

PartsSkeleton(parts) ==
    [i \in 1..Len(parts) |-> <<parts[i].t, parts[i].v, parts[i].conversion>>]

\* what the command checks of an expression before it embeds it
Validated(expr, quote) ==
    /\ expr.atoms # <<>>
    /\ \A i \in 1..Len(expr.atoms) :
          /\ expr.atoms[i].t \notin {"comment", "fstr", "await", "pws"}
          /\ expr.atoms[i].t = "str" =>
                ~has_char(quote, expr.atoms[i].v[Len(expr.atoms[i].v)])
    /\ ~has_char(code_for_node(expr), BS)

CompleteParts(p, t, out) ==
    /\ p.ok
    /\ t.kind = "ok"
    /\ out.start = <<"f">> \o p.prefix \o p.quote
    /\ out.end = p.quote
    /\ out.warn = ""
    /\ PartsSkeleton(out.parts) = Skeleton(t.tokens)
    /\ \A i \in 1..Len(out.parts) :
          out.parts[i].t = "expr" => Validated(out.parts[i].expr, p.quote)

CompleteRewrite(call, out) ==
    call.isformat /\ CompleteParts(StringOf(call), TokensOf(call), out)

\* C1: leave_Call returns either the call itself, or a formatted string
\* holding every literal segment and every field of the format string, each
\* field resolved and validated; never a part of them.
CallRewriteAtomic ==
    \A i \in Left :
        \/ results[i].kind = "raise"
        \/ results[i].kind = "unchanged" /\ results[i].parts = <<>>
        \/ results[i].kind = "fstring" /\ CompleteRewrite(calls[i], results[i])

\* a call given up at its second field, after the first has been collected
CallRewriteAtomicWitness ==
    \E i \in Left :
        /\ calls[i].isformat
        /\ results[i].kind = "unchanged"
        /\ results[i].warn = "format_spec"
        /\ Len(TokensOf(calls[i]).tokens) >= 3
        /\ ~TokensOf(calls[i]).tokens[1].format_spec.some

\* C6: '{}'.format("it's") is left unchanged, with the warning of the
\* quote-collision check.
ItsLeftUnchanged ==
    \A i \in Left :
        calls[i] = CallIts =>
            results[i].kind = "unchanged" /\ results[i].warn = "same quote"

\* the fields among the tokens with a format spec that is not empty
SpecFields(toks) ==
    {j \in 1..Len(toks) :
        toks[j].format_spec.some /\ toks[j].format_spec.v # <<>>}

FirstSpecField(toks) ==
    CHOOSE j \in SpecFields(toks) : \A m \in SpecFields(toks) : j <= m

IsFormatCall(call) == call.isformat /\ StringOf(call).ok

\* the call cut off right before field j
BeforeField(call, toks, j) ==
    WithInnards(call, Rebuild(SubSeq(toks, 1, j - 1)) \o toks[j].literal_text)

\* some field has a format spec and all of these are empty, as in {:}
OnlyEmptySpecs(toks) ==
    /\ SpecFields(toks) = {}
    /\ \E j \in 1..Len(toks) : toks[j].format_spec.some

\* C7 as stated: a field with a non-empty format spec, anywhere, makes the
\* rewrite warn and return the call unchanged.
FormatSpecAlwaysAborts ==
    \A i \in Left :
        IsFormatCall(calls[i]) =>
            LET toks == TokensOf(calls[i]).tokens IN
            SpecFields(toks) # {} =>
                results[i].kind = "unchanged" /\ results[i].warn # ""

\* the outcome for a call with a field with a non-empty format spec, given
\* how the rewrite of the text before that field ends
AbortsAfter(before, out) ==
    IF before.kind = "raise" THEN out = before
    ELSE out.kind = "unchanged" /\ out.warn # ""

\* C7, amended: a field with a non-empty format spec makes the rewrite warn
\* and return the call unchanged, unless the text before that field already
\* ends the rewrite with an exception, which then is how the rewrite ends; a
\* formatted string is never produced.  An empty format spec does not abort.
FormatSpecAborts ==
    \A i \in Left :
        IsFormatCall(calls[i]) =>
            LET toks == TokensOf(calls[i]).tokens IN
            /\ SpecFields(toks) # {} =>
                  AbortsAfter(
                      leave_Call(BeforeField(calls[i], toks, FirstSpecField(toks))),
                      results[i])
            /\ OnlyEmptySpecs(toks) => results[i].warn # "format_spec"

\* a format spec in the second field, the first one resolved: unchanged
FormatSpecAbortsWitness ==
    \E i \in Left :
        /\ IsFormatCall(calls[i])
        /\ LET toks == TokensOf(calls[i]).tokens IN
            /\ SpecFields(toks) # {}
            /\ 1 \notin SpecFields(toks)
            /\ leave_Call(BeforeField(calls[i], toks, FirstSpecField(toks))).kind
                 = "fstring"
        /\ results[i].kind = "unchanged"
        /\ results[i].warn = "format_spec"

\* does the text, read from pos at brace depth depth, hold a closing brace
\* that takes the depth below 0 or leave an opening brace unclosed?
RECURSIVE StrayFrom(_, _, _)
StrayFrom(text, pos, depth) ==
    IF pos > Len(text) THEN depth > 0
    ELSE IF /\ depth = 0 /\ pos < Len(text) /\ text[pos] \in {"{", "}"}
            /\ text[pos + 1] = text[pos]
    THEN StrayFrom(text, pos + 2, depth)
    ELSE IF text[pos] = "{" THEN StrayFrom(text, pos + 1, depth + 1)
    ELSE IF text[pos] = "}"
    THEN depth = 0 \/ StrayFrom(text, pos + 1, depth - 1)
    ELSE StrayFrom(text, pos + 1, depth)

HasStrayBrace(call) ==
    IsFormatCall(call) /\ StrayFrom(StringOf(call).innards, 1, 0)

\* the outcome for a call with a stray brace, given how the rewrite of the
\* text before the brace ends
StrayAfter(before, out) ==
    /\ out.kind # "fstring"
    /\ IF before.kind = "fstring"
       THEN out.kind = "raise" /\ out.msg \in {"Stray {", "Stray }"}
       ELSE out = before

\* the call cut off after the last field the tokenizer yields
BeforeStrayBrace(call) == WithInnards(call, Rebuild(TokensOf(call).tokens))

\* C8 as stated: a stray brace ends the rewrite with a fatal error, whatever
\* the fields before it.
StrayBraceAlwaysFatal ==
    \A i \in Left : HasStrayBrace(calls[i]) => results[i].kind = "raise"

\* C8, amended: with a stray brace in the format string the rewrite never
\* ends with a formatted string; it ends with the stray-brace error when
\* the fields before the brace all resolve and validate, and otherwise the
\* way the first of those fields that does not ends it (an exception, or a
\* warning and the call unchanged).
StrayBraceNeverRewritten ==
    \A i \in Left :
        HasStrayBrace(calls[i]) =>
            StrayAfter(leave_Call(BeforeStrayBrace(calls[i])), results[i])

\* a stray closing brace after a field that resolved: fatal
StrayBraceWitness ==
    \E i \in Left :
        /\ HasStrayBrace(calls[i])
        /\ Len(TokensOf(calls[i]).tokens) >= 1
        /\ results[i].kind = "raise"
        /\ results[i].msg = "Stray }"
        /\ status = "fatal"

IsExprPart(part) == part.t = "expr"

\* the text between the quotes of a formatted string
RECURSIVE Body(_)
Body(parts) ==
    IF parts = <<>> THEN <<>>
    ELSE LET part == Head(parts) IN
         (IF part.t = "text" THEN part.v
          ELSE <<"{">> \o code_for_node(part.expr)
               \o (IF part.conversion.some THEN <<"!">> \o part.conversion.v
                   ELSE <<>>)
               \o <<"}">>)
         \o Body(Tail(parts))

\* the number of fields with an empty name before field j
EmptyNamesBefore(tokens, j) ==
    Cardinality({m \in 1..(j - 1) :
                    tokens[m].field_name.some /\ tokens[m].field_name.v = <<>>})

\* field j has an empty name and holds the argument its number names
HoldsArgument(toks, j, exprs, args, quote) ==
    toks[j].field_name.v = <<>> =>
        /\ EmptyNamesBefore(toks, j) < Len(args)
        /\ exprs[j].expr
             = embed_expr(args[EmptyNamesBefore(toks, j) + 1].value, quote).expr

\* C10: in every rewritten call the k-th field with an empty name holds the
\* k-th argument (as embedded), k counted over the fields with an empty name
\* of that call alone; "{}{{{}}}".format(x, y) becomes f"{x}{{{y}}}",
\* wherever in the file it stands.
AutoNumbering ==
    \A i \in Left :
        /\ results[i].kind = "fstring" =>
              LET toks == TokensOf(calls[i]).tokens
                  exprs == SelectSeq(results[i].parts, IsExprPart)
              IN \A j \in 1..(Len(toks) - 1) :
                    HoldsArgument(toks, j, exprs, calls[i].args,
                                  StringOf(calls[i]).quote)
        /\ calls[i] = CallEscaped =>
              /\ results[i].kind = "fstring"
              /\ Body(results[i].parts)
                   = <<"{", "x", "}", "{", "{", "{", "y", "}", "}", "}">>

\* a file with "{}{{{}}}".format(x, y) twice, both left
AutoNumberingWitness ==
    /\ Len(results) = 2
    /\ calls[1] = CallEscaped
    /\ calls[2] = CallEscaped
    /\ results[2].kind = "fstring"

(***************************************************************************)
(* Properties of AddImportsVisitor                                         *)
(***************************************************************************)
\* the pass last run, if any: every pass has been the last one
Latest == IF passes = <<>> THEN {} ELSE {Len(passes)}

\* no request of the list is for __future__ itself
ValidRequests(imports) ==
    \A k \in 1..Len(imports) : imports[k] # <<Future, <<>>>>

\* C2: a pass with valid requests ends well; run over the output of a pass
\* with the same requests, it returns that output as it is.
ImportIdempotence ==
    \A i \in Latest :
        /\ ValidRequests(passes[i].imports) => passes[i].kind = "ok"
        /\ i > 1 /\ passes[i].imports = passes[i - 1].imports
              => passes[i].output = passes[i - 1].output

\* a first pass added a statement and a blank line, a second pass ran
ImportIdempotenceWitness ==
    /\ Len(passes) >= 2
    /\ Len(passes[1].output) > Len(passes[1].input)
    /\ Len(passes[1].input) > 0
    /\ passes[1].output[Len(passes[1].output)].leading_lines = <<"empty">>
    /\ passes[1].input[Len(passes[1].input)].leading_lines = <<>>
    /\ passes[2].imports = passes[1].imports
    /\ passes[2].output = passes[1].output

\* the modules of which the body has a from-import of a star
StarModules(body) ==
    {body[i].module :
        i \in {k \in 1..Len(body) :
                  /\ body[k].kind = "ImportFrom"
                  /\ body[k].relative = 0
                  /\ body[k].names = <<"*">>}}

\* the from-imports of a module in a body, in order
FromImportsOf(body, module) ==
    SelectSeq(body, LAMBDA node : node.kind = "ImportFrom" /\ node.module = module)

\* every request is for an object of a module imported with a star
AllSatisfiedByStar(imports, body) ==
    \A i \in 1..Len(imports) :
        imports[i][2] # <<>> /\ imports[i][1] \in StarModules(body)

\* C3: a pass with valid requests over a module with "from M import *" ends
\* well, leaves the from-imports of M as they are and adds none; when every
\* request is for an object of such a module, the pass returns the module
\* as it is.
WildcardSuppression ==
    \A i \in Latest :
        /\ ValidRequests(passes[i].imports) =>
           \A module \in StarModules(passes[i].input) :
              /\ passes[i].kind = "ok"
              /\ FromImportsOf(passes[i].output, module)
                   = FromImportsOf(passes[i].input, module)
        /\ AllSatisfiedByStar(passes[i].imports, passes[i].input)
              => passes[i].kind = "ok" /\ passes[i].output = passes[i].input

\* "from a import *" then a statement with no blank line before it, and the
\* request (a, x): no edit
WildcardSuppressionWitness ==
    \E i \in 1..Len(passes) :
        /\ passes[i].imports = <<<<"a", <<"x">>>>>>
        /\ passes[i].input = <<ImportFrom("a", <<"*">>, 0), Pass(<<>>)>>
        /\ passes[i].output = passes[i].input

\* C4 as stated: a pass over a module that starts with an assignment to
\* __strict__ returns a module that starts with that assignment, every
\* statement it adds coming later.
StrictStaysFirst ==
    \A i \in Latest :
        starts_strict(passes[i].input) /\ passes[i].kind = "ok"
            => starts_strict(passes[i].output)

\* the requests of a list, as a set
RequestSet(imports) == {imports[i] : i \in 1..Len(imports)}

\* the names a body imports from a module, "*" among them for a star
ImportedFrom(body, module) ==
    UNION {{node.names[j] : j \in 1..Len(node.names)} :
              node \in {body[i] :
                           i \in {k \in 1..Len(body) :
                                     /\ body[k].kind = "ImportFrom"
                                     /\ body[k].relative = 0
                                     /\ body[k].module = module}}}

\* the names asked of a module that the body does not import from it yet
Missing(imports, body, module) ==
    IF "*" \in ImportedFrom(body, module) THEN {}
    ELSE {r[2][1] : r \in {q \in RequestSet(imports) :
                              q[1] = module /\ q[2] # <<>>}}
         \ ImportedFrom(body, module)

\* the modules still to be imported with "import M"
BareNeeded(imports, body) ==
    {r[1] : r \in {q \in RequestSet(imports) : q[2] = <<>>}}
    \ {body[i].module : i \in {k \in 1..Len(body) : body[k].kind = "Import"}}

\* the modules still in need of a new "from M import ..." statement: names
\* are missing and the body has no from-import of M to take them
FromNeeded(imports, body) ==
    {module \in {r[1] : r \in RequestSet(imports)} :
        /\ Missing(imports, body, module) # {}
        /\ FromImportsOf(body, module) = <<>>}

\* the position of the last import statement of a body, 0 without one
LastImport(body) ==
    IF \A i \in 1..Len(body) : body[i].kind \notin {"Import", "ImportFrom"}
    THEN 0
    ELSE CHOOSE i \in 1..Len(body) :
            /\ body[i].kind \in {"Import", "ImportFrom"}
            /\ \A j \in (i + 1)..Len(body) :
                  body[j].kind \notin {"Import", "ImportFrom"}

\* the same statement, its names and the lines before it left aside
SameStatement(old, new) ==
    /\ new.kind = old.kind
    /\ new.module = old.module
    /\ new.relative = old.relative

\* output is: future new from-imports, the first before statements of
\* input, the new imports of bare, sorted, a new from-import with sorted
\* names for each module of froms, the other statements of input
PlacedAt(imports, input, output, before, future, bare, froms) ==
    /\ Len(output) = Len(input) + future + Len(bare) + Cardinality(froms)
    /\ future = 1 =>
          output[1] = ImportFrom(Future, sorted(Missing(imports, input, Future)), 0)
    /\ \A j \in 1..before : SameStatement(input[j], output[future + j])
    /\ \A j \in 1..Len(bare) : output[future + before + j] = Import(bare[j])
    /\ {output[future + before + Len(bare) + j] : j \in 1..Cardinality(froms)}
         = {ImportFrom(module, sorted(Missing(imports, input, module)), 0) :
               module \in froms}
    /\ \A j \in (before + 1)..Len(input) :
          SameStatement(input[j],
                        output[future + Len(bare) + Cardinality(froms) + j])

\* a pass with something left to import placed its statements, the original
\* ones split after the first before of them
Placed(pass, before) ==
    (pass.kind = "ok"
     /\ (BareNeeded(pass.imports, pass.input) # {}
         \/ FromNeeded(pass.imports, pass.input) # {}))
    => PlacedAt(pass.imports, pass.input, pass.output, before,
                IF Future \in FromNeeded(pass.imports, pass.input) THEN 1 ELSE 0,
                sorted(BareNeeded(pass.imports, pass.input)),
                FromNeeded(pass.imports, pass.input) \ {Future})

\* C5 as stated: the new statements of a pass come right after the last
\* import statement of the module, at the top of a module without one, the
\* new from __future__ import first of all.
PlacedAfterLastImport ==
    \A i \in Latest : Placed(passes[i], LastImport(passes[i].input))

\* where the new statements come: after the last import statement, and in a
\* module without one after its first statement if that assigns __strict__
AddLocation(body) ==
    IF LastImport(body) = 0 /\ starts_strict(body) THEN 1 ELSE LastImport(body)

\* C5, amended: the new statements of a pass come right after the last
\* import statement of the module; in a module without one they come at the
\* top, or after the first statement when that assigns __strict__; the new
\* from __future__ import comes first of all in every case.
PlacedAfterImportsOrStrict ==
    \A i \in Latest : Placed(passes[i], AddLocation(passes[i].input))

\* "__strict__ = True" alone and the request (a, None): import a comes second
PlacedAfterStrictWitness ==
    \E i \in 1..Len(passes) :
        /\ passes[i].input = <<Assign(Strict)>>
        /\ passes[i].imports = <<<<"a", <<>>>>>>
        /\ passes[i].output = <<Assign(Strict), Import("a")>>

\* the registry holds no request for __future__ itself, and a pass that
\* raised is one that was given such a request and left the module alone
FailedFast ==
    /\ ValidRequests(scratch)
    /\ raised /\ passes # <<>> => tree = passes[Len(passes)].input
    /\ \A i \in 1..Len(passes) :
          /\ passes[i].kind = "raise" <=> ~ValidRequests(passes[i].imports)
          /\ passes[i].kind = "raise" => passes[i].output = <<>>

\* a step that changes the registry appends one valid request to it and
\* raises nothing; a step that raises leaves registry and module as they are
RegisteredInOrder ==
    /\ scratch' # scratch =>
          /\ ~raised'
          /\ \E request \in Requests \ {<<Future, <<>>>>} :
                scratch' = Append(scratch, request)
    /\ raised' => scratch' = scratch /\ tree' = tree

\* C11: add_needed_import raises for a bare __future__ and leaves the
\* registry as it is, any other request is appended to the registry, which
\* so never holds a bare __future__; an AddImportsVisitor given a bare
\* __future__ raises before it visits the module.
BareFutureFailsFast == []FailedFast /\ [][RegisteredInOrder]_vars

\* add_needed_import raised after a request was registered
BareFutureFailsFastWitness ==
    /\ raised
    /\ passes = <<>>
    /\ Len(scratch) = 1

\* a sequence without the later occurrences of its elements
RECURSIVE FirstOccurrences(_)
FirstOccurrences(seq) ==
    IF seq = <<>> THEN <<>>
    ELSE <<seq[1]>>
         \o FirstOccurrences(SelectSeq(Tail(seq), LAMBDA e : e # seq[1]))

\* the modules among the given ones, in the order in which the requests
\* name them first
FirstSeen(imports, modules) ==
    FirstOccurrences(SelectSeq([i \in 1..Len(imports) |-> imports[i][1]],
                               LAMBDA module : module \in modules))

\* the modules of the from-imports of a body that are among the given ones
FromModules(body, modules) ==
    SelectSeq([i \in 1..Len(body) |->
                  IF body[i].kind = "ImportFrom" THEN body[i].module ELSE ""],
              LAMBDA module : module \in modules)

\* the modules other than __future__ a pass has to add a from-import for
NewFromModules(pass) == FromNeeded(pass.imports, pass.input) \ {Future}

\* C12 as stated: the new from-imports of a pass come in the order in
\* which the requests name their modules first.
NewFromImportsInRequestOrder ==
    \A i \in Latest :
        passes[i].kind = "ok" =>
            FromModules(passes[i].output, NewFromModules(passes[i]))
              = FirstSeen(passes[i].imports, NewFromModules(passes[i]))

\* C12, amended: the new from-imports of a pass come in the sorted order of
\* their modules, whatever the order of the requests.
NewFromImportsSorted ==
    \A i \in Latest :
        passes[i].kind = "ok" =>
            FromModules(passes[i].output, NewFromModules(passes[i]))
              = sorted(NewFromModules(passes[i]))

\* the requests (b, x) then (a, x) for an empty module: a comes first
NewFromImportsSortedWitness ==
    \E i \in 1..Len(passes) :
        /\ passes[i].imports = <<<<"b", <<"x">>>>, <<"a", <<"x">>>>>>
        /\ passes[i].input = <<>>
        /\ passes[i].output = <<ImportFrom("a", <<"x">>, 0),
                                ImportFrom("b", <<"x">>, 0)>>

\* the statements of a sequence of from-imports that can take new names
Mergeable(froms) ==
    {k \in 1..Len(froms) : froms[k].relative = 0 /\ froms[k].names # <<"*">>}

\* new is old with exactly the names of missing, each once, put first
MergedInto(old, new, missing) ==
    /\ Len(new.names) = Len(old.names) + Cardinality(missing)
    /\ {new.names[j] : j \in 1..Cardinality(missing)} = missing
    /\ new = [old EXCEPT !.names =
                  SubSeq(new.names, 1, Cardinality(missing)) \o old.names]

\* the from-imports of a module after a pass are those before it, the first
\* mergeable one having taken the missing names
MergedInPlace(before, after, missing) ==
    /\ Len(after) = Len(before)
    /\ \A k \in 1..Len(before) :
          IF k \in Mergeable(before) /\ \A j \in Mergeable(before) : k <= j
          THEN MergedInto(before[k], after[k], missing)
          ELSE after[k] = before[k]

\* C13: when names asked of a module are missing and the module has a
\* from-import of it that is neither relative nor a star, the first such
\* statement takes exactly the missing names, each once, ahead of its own;
\* no other from-import of the module changes and none is added.
PartialRequestsMerged ==
    \A i \in Latest :
        passes[i].kind = "ok" =>
            \A module \in {r[1] : r \in RequestSet(passes[i].imports)} :
                (/\ Missing(passes[i].imports, passes[i].input, module) # {}
                 /\ Mergeable(FromImportsOf(passes[i].input, module)) # {})
                => MergedInPlace(FromImportsOf(passes[i].input, module),
                                 FromImportsOf(passes[i].output, module),
                                 Missing(passes[i].imports, passes[i].input, module))

\* "from a import x" then "from a import b" with the requests (a, x) and
\* (a, y): the first statement takes y alone
PartialRequestsMergedWitness ==
    \E i \in 1..Len(passes) :
        /\ passes[i].imports = <<<<"a", <<"x">>>>, <<"a", <<"y">>>>>>
        /\ passes[i].input = <<ImportFrom("a", <<"x">>, 0),
                               ImportFrom("a", <<"b">>, 0)>>
        /\ passes[i].output = <<ImportFrom("a", <<"y", "x">>, 0),
                                ImportFrom("a", <<"b">>, 0)>>

(***************************************************************************)
(* Properties of the resolution of field names                             *)
(***************************************************************************)
\* the name of field j as it is resolved: its number for an empty name
FieldName(toks, j) ==
    IF toks[j].field_name.v = <<>> THEN to_str(EmptyNamesBefore(toks, j))
    ELSE toks[j].field_name.v

\* the digits, or the letters and digits, a field name starts with
HeadDigits(name) == SubSeq(name, 1, scan(name, 1, DigitSet) - 1)

HeadName(name) == SubSeq(name, 1, scan(name, 1, Letters \cup DigitSet) - 1)

HasIntHead(name) == name # <<>> /\ name[1] \in DigitSet

HasNameHead(name) == name # <<>> /\ name[1] \in Letters

NoSpread(args) == \A i \in 1..Len(args) : args[i].star = ""

\* there is a positional argument at index n, counted from 0
PositionalAt(args, n) == n < Len(args) /\ ~args[n + 1].keyword.some

\* the keyword arguments of a name
KeywordNamed(args, name) ==
    {i \in 1..Len(args) : args[i].keyword.some /\ args[i].keyword.v = name}

\* the head of a field name has its argument: a positional one at its
\* index for an integer, a keyword one of its name for an identifier
HeadMatched(name, args) ==
    /\ HasIntHead(name) => PositionalAt(args, to_int(HeadDigits(name)))
    /\ HasNameHead(name) => KeywordNamed(args, HeadName(name)) # {}

\* the expression of a field whose name is its head alone is the argument
\* of HeadMatched, as embedded
HeadValue(name, args, expr, quote) ==
    /\ HasIntHead(name) /\ name = HeadDigits(name) =>
          expr = embed_expr(args[to_int(name) + 1].value, quote).expr
    /\ HasNameHead(name) /\ name = HeadName(name) =>
          \E i \in KeywordNamed(args, name) :
              expr = embed_expr(args[i].value, quote).expr

\* the fields of a rewritten call all have their arguments
FieldsMatched(toks, args, exprs, quote) ==
    \A j \in 1..Len(toks) :
        toks[j].field_name.some =>
            /\ HeadMatched(FieldName(toks, j), args)
            /\ HeadValue(FieldName(toks, j), args, exprs[j].expr, quote)

\* the first field is reached, has no format spec to abort for, and its
\* head has no argument
FirstFieldUnmatched(toks, args) ==
    /\ toks # <<>>
    /\ toks[1].field_name.some
    /\ ~(toks[1].format_spec.some /\ toks[1].format_spec.v # <<>>)
    /\ ~HeadMatched(FieldName(toks, 1), args)

\* C14 as stated: without a spread argument, a field with an integer head
\* N resolves to the positional argument at index N and one with an
\* identifier head to the keyword argument of that name, in every rewritten
\* call; a call whose first field has no such argument ends with an
\* exception.  No integer head resolves to a keyword argument, no
\* identifier head to a positional one.
FieldsResolveByKind ==
    \A i \in Left :
        IsFormatCall(calls[i]) /\ NoSpread(calls[i].args) =>
            /\ results[i].kind = "fstring" =>
                  FieldsMatched(TokensOf(calls[i]).tokens, calls[i].args,
                                SelectSeq(results[i].parts, IsExprPart),
                                StringOf(calls[i]).quote)
            /\ FirstFieldUnmatched(TokensOf(calls[i]).tokens, calls[i].args)
                  => results[i].kind = "raise"

====
